---------------------------- MODULE Spec2Model ----------------------------
(***************************************************************************)
(* Model of app.py, the Streamlit script of the YouTube Arabic transcriber. *)
(*                                                                         *)
(* A text (the URL box, a URL, a transcript, a file's content) is the      *)
(* sequence of its characters, each a one-character string; "U+0645" is    *)
(* the Arabic letter meem.  A script run is one pass over app.py from top  *)
(* to bottom, started by a widget interaction; pc is the line the pass has *)
(* reached, and "idle" means that no pass is executing.                    *)
(***************************************************************************)
EXTENDS Integers, Sequences, FiniteSets, TLC

(***************************************************************************)
(* Bounds of the model.                                                    *)
(***************************************************************************)
MaxInputLen == 3

(***************************************************************************)
(* Characters and literal texts of app.py.                                 *)
(***************************************************************************)
InputChars == {" ", "a", "b", "\n"}

None == [none |-> TRUE]

Raised(msg) == [raised |-> msg]

Returned(text) == [text |-> text]

File(path) == [path |-> path]

IsRaised(v) == DOMAIN v = {"raised"}

SepWidth == 50

Rep(c, n) == [k \in 1..n |-> c]

VideoUrlHeader == <<"V", "i", "d", "e", "o", " ", "U", "R", "L", ":", " ">>

ArabicHeader == <<"\n", "\n", "A", "R", "A", "B", "I", "C", " ", "T", "R", "A", "N", "S", "C", "R", "I", "P", "T", ":", "\n">>

EnglishHeader == <<"\n", "\n", "E", "N", "G", "L", "I", "S", "H", " ", "T", "R", "A", "N", "S", "L", "A", "T", "I", "O", "N", ":", "\n">>

CombinedSeparator == <<"\n", "\n">> \o Rep("=", SepWidth) \o EnglishHeader

TranslationFailed == <<"T", "r", "a", "n", "s", "l", "a", "t", "i", "o", "n", " ", "f", "a", "i", "l", "e", "d", ":", " ">>

(***************************************************************************)
(* What the external calls can give back.  A transcript is any text; the   *)
(* samples are a one-letter Arabic text and a text that happens to hold    *)
(* the separator of the combined export file; the sample translation holds *)
(* that separator too.                                                     *)
(***************************************************************************)
Transcripts == {<<"U+0645">>, <<"a">> \o CombinedSeparator \o <<"b">>}

ErrorMessages == {<<"t", "i", "m", "e", "o", "u", "t">>}

Translations == {<<"b">> \o CombinedSeparator}

TranscribeOutcomes ==
    { Returned(t) : t \in Transcripts } \cup { Raised(m) : m \in ErrorMessages }

TranslateOutcomes ==
    { Returned(t) : t \in Translations } \cup { Raised(m) : m \in ErrorMessages }

(***************************************************************************)
(* str.strip(), str.split('\n') and the list comprehension of line 108.    *)
(***************************************************************************)
IsSpace(c) == c \in {" ", "\n"}

RECURSIVE LStrip(_)
LStrip(s) == IF s # <<>> /\ IsSpace(Head(s)) THEN LStrip(Tail(s)) ELSE s

RECURSIVE RStrip(_)
RStrip(s) ==
    IF s # <<>> /\ IsSpace(s[Len(s)]) THEN RStrip(SubSeq(s, 1, Len(s) - 1)) ELSE s

Strip(s) == RStrip(LStrip(s))

RECURSIVE Split(_)
Split(s) ==
    IF \A k \in 1..Len(s) : s[k] # "\n"
    THEN <<s>>
    ELSE LET k == CHOOSE j \in 1..Len(s) :
                      s[j] = "\n" /\ \A m \in 1..(j - 1) : s[m] # "\n"
         IN  <<SubSeq(s, 1, k - 1)>> \o Split(SubSeq(s, k + 1, Len(s)))

Truthy(s) == s # <<>>

(* Variant: the filter of line 108 tests the line itself, not its strip. *)
KeepLineUnstripped(line) == Truthy(line)

KeepLine(line) == Truthy(Strip(line))

RECURSIVE StripAll(_)
StripAll(lines) ==
    IF lines = <<>> THEN <<>>
    ELSE (IF KeepLine(Head(lines)) THEN <<Strip(Head(lines))>> ELSE <<>>)
         \o StripAll(Tail(lines))

ParseUrls(text) == StripAll(Split(text))

(***************************************************************************)
(* str(n) for a positive integer: its decimal digits.                      *)
(***************************************************************************)
Digit(d) == CASE d = 0 -> "0" [] d = 1 -> "1" [] d = 2 -> "2" [] d = 3 -> "3"
              [] d = 4 -> "4" [] d = 5 -> "5" [] d = 6 -> "6" [] d = 7 -> "7"
              [] d = 8 -> "8" [] d = 9 -> "9"

RECURSIVE Str(_)
Str(n) == IF n < 10 THEN <<Digit(n)>> ELSE Str(n \div 10) \o <<Digit(n % 10)>>


(***************************************************************************)
(* Paths: os.path.join, os.path.dirname, os.path.basename.                 *)
(***************************************************************************)
Join(dir, name) == dir \o <<"/">> \o name

LastSlash(path) ==
    CHOOSE k \in 1..Len(path) :
        path[k] = "/" /\ \A m \in (k + 1)..Len(path) : path[m] # "/"

Dirname(path) == SubSeq(path, 1, LastSlash(path) - 1)

Basename(path) == SubSeq(path, LastSlash(path) + 1, Len(path))

StartsWith(s, prefix) ==
    Len(prefix) <= Len(s) /\ SubSeq(s, 1, Len(prefix)) = prefix

TempDir == <<"/", "t">>

VideoStem(video_index) == <<"v", "i", "d", "e", "o", "_">> \o Str(video_index)

OutputPath(video_index) == Join(TempDir, VideoStem(video_index))

(***************************************************************************)
(* What yt-dlp can do in the job's temporary directory: the call itself    *)
(* raises (the program is missing), or it exits with a return code and     *)
(* leaves any set of files behind.                                         *)
(***************************************************************************)
FileNames(video_index) ==
    { VideoStem(video_index) \o <<".", "m", "p", "4">>,
      VideoStem(video_index) \o <<".", "m", "p", "4", ".", "p", "a", "r", "t">>,
      <<"l", "o", "g">> }

ReturnCodes == {0, 1}

SubprocessOutcomes(video_index) ==
    { Raised(m) : m \in ErrorMessages }
    \cup { [returncode |-> c, listing |-> fs] :
              c \in ReturnCodes, fs \in SUBSET FileNames(video_index) }

(***************************************************************************)
(* download_video: the values it can return for an outcome of the          *)
(* subprocess (os.listdir gives the files in no fixed order, so files[0]   *)
(* is any of the matching files).  The return code is never read.          *)
(***************************************************************************)
MatchingFiles(output_path, listing) ==
    { f \in listing : StartsWith(f, Basename(output_path)) }

download_video(output_path, outcome) ==
    IF IsRaised(outcome) THEN {None}
    ELSE LET files == MatchingFiles(output_path, outcome.listing)
         IN  IF files # {}
             THEN { File(Join(Dirname(output_path), f)) : f \in files }
             ELSE {None}

(* Variant: the test of line 64 is missing. *)
NoFileIgnored(file) == FALSE

(* Line 64, `if not downloaded_file`, and line 131, `if result`. *)
NoFile(file) == file = None

HasResult(video) == video # None

(***************************************************************************)
(* process_video's return value once transcription has succeeded: `out` is *)
(* what translator.translate gave, a text or a raised exception.           *)
(***************************************************************************)
EnglishText(out) ==
    IF IsRaised(out) THEN TranslationFailed \o out.raised ELSE out.text

(* Variant: a raised translation reaches the handler of line 94. *)
process_video_return_strict(url, video_index, arabic_text, out) ==
    IF IsRaised(out) THEN None
    ELSE [url |-> url, arabic |-> arabic_text, english |-> out.text,
          index |-> video_index]

process_video_return(url, video_index, arabic_text, out) ==
    [url |-> url, arabic |-> arabic_text, english |-> EnglishText(out),
     index |-> video_index]

(***************************************************************************)
(* The export of lines 177-201: three files per video, UTF-8 encoded.      *)
(***************************************************************************)
Ord ==
    ("\n" :> 10) @@ (" " :> 32) @@ (":" :> 58) @@ ("=" :> 61) @@ ("A" :> 65)
    @@ ("B" :> 66) @@ ("C" :> 67) @@ ("E" :> 69) @@ ("G" :> 71) @@ ("H" :> 72)
    @@ ("I" :> 73) @@ ("L" :> 76) @@ ("N" :> 78) @@ ("O" :> 79) @@ ("P" :> 80)
    @@ ("R" :> 82) @@ ("S" :> 83) @@ ("T" :> 84) @@ ("U" :> 85) @@ ("V" :> 86)
    @@ ("a" :> 97) @@ ("b" :> 98) @@ ("d" :> 100) @@ ("e" :> 101)
    @@ ("f" :> 102) @@ ("i" :> 105) @@ ("l" :> 108) @@ ("m" :> 109)
    @@ ("n" :> 110) @@ ("o" :> 111) @@ ("r" :> 114) @@ ("s" :> 115)
    @@ ("t" :> 116) @@ ("u" :> 117) @@ ("U+0645" :> 1605)

Utf8Char(cp) ==
    IF cp < 128 THEN <<cp>>
    ELSE IF cp < 2048 THEN <<192 + (cp \div 64), 128 + (cp % 64)>>
    ELSE <<224 + (cp \div 4096), 128 + ((cp \div 64) % 64), 128 + (cp % 64)>>

RECURSIVE Utf8Encode(_)
Utf8Encode(text) ==
    IF text = <<>> THEN <<>>
    ELSE IF Len(text) = 1 THEN Utf8Char(Ord[text[1]])
    ELSE LET half == Len(text) \div 2
         IN  Utf8Encode(SubSeq(text, 1, half))
             \o Utf8Encode(SubSeq(text, half + 1, Len(text)))

(* Variant: the English file is written from the Arabic text. *)
english_content_swapped(video) ==
    VideoUrlHeader \o video.url \o EnglishHeader \o video.arabic

arabic_content(video) ==
    VideoUrlHeader \o video.url \o ArabicHeader \o video.arabic

english_content(video) ==
    VideoUrlHeader \o video.url \o EnglishHeader \o video.english

combined_content(video) ==
    VideoUrlHeader \o video.url \o ArabicHeader \o video.arabic
    \o <<"\n", "\n">> \o Rep("=", SepWidth) \o EnglishHeader \o video.english

EntryName(role, index) == <<"transcript_", role, "_">> \o Str(index) \o <<".txt">>

VideoEntries(video) ==
    << [name |-> EntryName("arabic", video.index),
        data |-> Utf8Encode(arabic_content(video))],
       [name |-> EntryName("english", video.index),
        data |-> Utf8Encode(english_content(video))],
       [name |-> EntryName("both", video.index),
        data |-> Utf8Encode(combined_content(video))] >>

RECURSIVE Package(_)
Package(videos) ==
    IF videos = <<>> THEN <<>>
    ELSE VideoEntries(Head(videos)) \o Package(Tail(videos))

(***************************************************************************)
(* The state.                                                              *)
(*   url_input         the text of the sidebar text area as line 100 read  *)
(*                     it in the current script run (between runs the user *)
(*                     can put any text there, so no text is kept)         *)
(*   processed_videos  st.session_state.processed_videos                   *)
(*   processing        st.session_state.processing                         *)
(*   models_cached     whether st.cache_resource holds the loaded models   *)
(*   pc                where the script run is; "idle" between runs        *)
(*   urls, i           the list and the index of the loop of line 122      *)
(*   subprocess, downloaded_file, arabic_text                              *)
(*                     locals of download_video and process_video          *)
(*   result            process_video's return value at line 129            *)
(*   notices           the messages the current script run has rendered    *)
(*   archive           the ZIP the download button holds, or None          *)
(*   log               history: the calls of process_video and of the      *)
(*                     external programs, and whether each gave a value,   *)
(*                     since the last accepted Start Processing click      *)
(*   dropped           history: how many results of earlier runs line 114  *)
(*                     removed for the batch run now executing (0 when     *)
(*                     none is)                                            *)
(***************************************************************************)
VARIABLES url_input, processed_videos, processing, models_cached, pc, urls, i,
          subprocess, downloaded_file, arabic_text, result, notices, archive,
          log, dropped

vars == <<url_input, processed_videos, processing, models_cached, pc, urls, i,
          subprocess, downloaded_file, arabic_text, result, notices, archive,
          log, dropped>>

session == <<processed_videos, processing>>

locals == <<subprocess, downloaded_file, arabic_text>>

RECURSIVE TextsUpTo(_)
TextsUpTo(n) ==
    IF n = 0 THEN {<<>>}
    ELSE LET shorter == TextsUpTo(n - 1)
         IN  shorter \cup { Append(t, c) : t \in shorter, c \in InputChars }

Inputs == TextsUpTo(MaxInputLen)

Event(op, index, ok) == [op |-> op, i |-> index, ok |-> ok]

Notice(kind, text) == [kind |-> kind, text |-> text]

ValidationError == Notice("error", <<"Please enter at least one YouTube URL">>)

FailedNotice(index) == Notice("error", <<"Video ">> \o Str(index) \o <<" failed!">>)

CompletedNotice(index) ==
    Notice("success", <<"Video ">> \o Str(index) \o <<" completed!">>)

Init ==
    /\ url_input = <<>>
    /\ processed_videos = <<>>
    /\ processing = FALSE
    /\ models_cached = FALSE
    /\ pc = "idle"
    /\ urls = <<>>
    /\ i = 0
    /\ subprocess = None
    /\ downloaded_file = None
    /\ arabic_text = None
    /\ result = None
    /\ notices = <<>>
    /\ archive = None
    /\ log = <<>>
    /\ dropped = 0

(***************************************************************************)
(* The user edits the text area and leaves it: the script reruns with no   *)
(* button clicked, and only redraws the results.                           *)
(***************************************************************************)
EditUrlInput ==
    /\ pc = "idle"
    /\ notices' = <<>>
    /\ archive' = None
    /\ UNCHANGED <<dropped, url_input, session, models_cached, pc, urls, i, locals,
                   result, log>>

(***************************************************************************)
(* Line 107: the button is drawn with disabled = processing, and fires     *)
(* only when it is not disabled.                                           *)
(***************************************************************************)
(* Variant: the button is never disabled. *)
ButtonAlwaysEnabled == TRUE

ButtonEnabled == ~processing

ClickStart ==
    /\ pc = "idle"
    /\ ButtonEnabled
    /\ \E text \in Inputs : url_input' = text
    /\ pc' = "clicked"
    /\ notices' = <<>>
    /\ archive' = None
    /\ UNCHANGED <<dropped, session, models_cached, urls, i, locals, result, log>>

(* Lines 108-111. *)
RejectEmpty ==
    /\ pc = "clicked"
    /\ ~Truthy(ParseUrls(url_input))
    /\ notices' = Append(notices, ValidationError)
    /\ url_input' = <<>>
    /\ pc' = "idle"
    /\ UNCHANGED <<dropped, session, models_cached, urls, i, locals, result, archive, log>>

(* Variant: line 114 is missing. *)
KeepVideos(videos) == videos

(* Lines 108, 112-114. *)
ResetVideos(videos) == <<>>

StartProcessing ==
    /\ pc = "clicked"
    /\ Truthy(ParseUrls(url_input))
    /\ urls' = ParseUrls(url_input)
    /\ processing' = TRUE
    /\ processed_videos' = ResetVideos(processed_videos)
    /\ log' = <<Event("start", 0, TRUE)>>
    /\ dropped' = Len(processed_videos)
    /\ pc' = "load"
    /\ UNCHANGED <<url_input, models_cached, i, locals, result, notices, archive>>

(* Lines 117-119; the loop of line 122 starts at 1. *)
LoadModels ==
    /\ pc = "load"
    /\ models_cached' = TRUE
    /\ log' = Append(log, Event("load", 0, TRUE))
    /\ i' = 1
    /\ pc' = "loop"
    /\ UNCHANGED <<dropped, url_input, session, urls, locals, result, notices, archive>>

(***************************************************************************)
(* Lines 117-119 are inside no try: when a loader raises (nothing is       *)
(* cached then), the exception ends the script run.                        *)
(***************************************************************************)
LoadModelsRaises ==
    /\ pc = "load"
    /\ ~models_cached
    /\ \E m \in ErrorMessages :
          /\ log' = Append(log, Event("load", 0, FALSE))
          /\ notices' = Append(notices, Notice("exception", m))
    /\ url_input' = <<>>
    /\ dropped' = 0
    /\ pc' = "idle"
    /\ UNCHANGED <<session, models_cached, urls, i, locals, result, archive>>

(* Lines 122-129 and 53-61: the next URL goes to process_video. *)
StartVideo ==
    /\ pc = "loop"
    /\ i <= Len(urls)
    /\ log' = Append(log, Event("process_video", i, TRUE))
    /\ pc' = "download"
    /\ UNCHANGED <<dropped, url_input, session, models_cached, urls, i, locals, result,
                   notices, archive>>

(* Lines 137-138: the loop is over. *)
FinishBatch ==
    /\ pc = "loop"
    /\ i > Len(urls)
    /\ processing' = FALSE
    /\ notices' = Append(notices, Notice("success", <<"All videos processed!">>))
    /\ url_input' = <<>>
    /\ dropped' = 0
    /\ pc' = "idle"
    /\ UNCHANGED <<processed_videos, models_cached, urls, i, locals, result,
                   archive, log>>

(* Line 62 and download_video, lines 36-51. *)
DownloadVideo ==
    /\ pc = "download"
    /\ \E outcome \in SubprocessOutcomes(i) :
          /\ subprocess' = outcome
          /\ \E file \in download_video(OutputPath(i), outcome) :
                /\ downloaded_file' = file
                /\ log' = Append(log, Event("download_video", i, file # None))
          /\ notices' =
                IF IsRaised(outcome)
                THEN Append(notices,
                            Notice("error", <<"Download failed: ">> \o outcome.raised))
                ELSE notices
    /\ pc' = "fetched"
    /\ UNCHANGED <<dropped, url_input, session, models_cached, urls, i, arabic_text,
                   result, archive>>

(* Lines 64-65. *)
ReturnNoFile ==
    /\ pc = "fetched"
    /\ NoFile(downloaded_file)
    /\ result' = None
    /\ log' = Append(log, Event("return", i, FALSE))
    /\ subprocess' = None
    /\ downloaded_file' = None
    /\ pc' = "after"
    /\ UNCHANGED <<dropped, url_input, session, models_cached, urls, i, arabic_text,
                   notices, archive>>

(* Lines 67-72, the call returning. *)
Transcribe ==
    /\ pc = "fetched"
    /\ ~NoFile(downloaded_file)
    /\ \E t \in Transcripts :
          /\ arabic_text' = Returned(t)
          /\ log' = Append(log, Event("transcribe", i, TRUE))
    /\ pc' = "translate"
    /\ UNCHANGED <<dropped, url_input, session, models_cached, urls, i, subprocess,
                   downloaded_file, result, notices, archive>>

(* Variant: process_video has no handler, so the exception ends the run. *)
TranscribeRaisesUncaught ==
    /\ pc = "fetched"
    /\ ~NoFile(downloaded_file)
    /\ \E m \in ErrorMessages :
          /\ log' = Append(log, Event("transcribe", i, FALSE))
          /\ notices' = Append(notices, Notice("exception", m))
    /\ url_input' = <<>>
    /\ dropped' = 0
    /\ pc' = "idle"
    /\ UNCHANGED <<session, models_cached, urls, i, locals, result, archive>>

(* Line 71 raising, caught at lines 94-96. *)
TranscribeRaises ==
    /\ pc = "fetched"
    /\ ~NoFile(downloaded_file)
    /\ \E m \in ErrorMessages :
          /\ log' = log \o <<Event("transcribe", i, FALSE),
                             Event("return", i, FALSE)>>
          /\ notices' = Append(notices,
                Notice("error", <<"Error processing video ">> \o Str(i)
                                   \o <<": ">> \o m))
    /\ result' = None
    /\ subprocess' = None
    /\ downloaded_file' = None
    /\ pc' = "after"
    /\ UNCHANGED <<dropped, url_input, session, models_cached, urls, i, arabic_text,
                   archive>>

(* Lines 74-92: the translation, returned or raised, and the return. *)
Translate ==
    /\ pc = "translate"
    /\ \E out \in TranslateOutcomes :
          LET r == process_video_return(urls[i], i, arabic_text.text, out)
          IN  /\ result' = r
              /\ log' = log \o <<Event("translate", i, ~IsRaised(out)),
                                 Event("return", i, r # None)>>
    /\ subprocess' = None
    /\ downloaded_file' = None
    /\ arabic_text' = None
    /\ pc' = "after"
    /\ UNCHANGED <<dropped, url_input, session, models_cached, urls, i, notices, archive>>

(* Variant: the result is put in front. *)
PrependVideo(videos, video) == <<video>> \o videos

(* Lines 131-133. *)
AppendVideo(videos, video) == Append(videos, video)

AppendResult ==
    /\ pc = "after"
    /\ HasResult(result)
    /\ processed_videos' = AppendVideo(processed_videos, result)
    /\ notices' = Append(notices, CompletedNotice(i))
    /\ result' = None
    /\ i' = i + 1
    /\ pc' = "loop"
    /\ UNCHANGED <<dropped, url_input, processing, models_cached, urls, locals, archive,
                   log>>

(* Lines 134-135. *)
ReportFailure ==
    /\ pc = "after"
    /\ ~HasResult(result)
    /\ notices' = Append(notices, FailedNotice(i))
    /\ i' = i + 1
    /\ pc' = "loop"
    /\ UNCHANGED <<dropped, url_input, session, models_cached, urls, locals, result,
                   archive, log>>

(* Lines 141 and 177-201: the script reruns and builds the ZIP. *)
DownloadAll ==
    /\ pc = "idle"
    /\ Truthy(processed_videos)
    /\ archive' = [entries |-> Package(processed_videos)]
    /\ notices' = <<>>
    /\ UNCHANGED <<dropped, url_input, session, models_cached, pc, urls, i, locals, result,
                   log>>

Next ==
    \/ EditUrlInput
    \/ ClickStart
    \/ RejectEmpty
    \/ StartProcessing
    \/ LoadModels
    \/ LoadModelsRaises
    \/ StartVideo
    \/ FinishBatch
    \/ DownloadVideo
    \/ ReturnNoFile
    \/ Transcribe
    \/ TranscribeRaises
    \/ Translate
    \/ AppendResult
    \/ ReportFailure
    \/ DownloadAll

Spec == Init /\ [][Next]_vars

(***************************************************************************)
(* Reading the history.                                                    *)
(***************************************************************************)
Positions(op) == { p \in 1..Len(log) : log[p].op = op }

JobPositions(op, index) == { p \in Positions(op) : log[p].i = index }

IsProcessVideo(e) == e.op = "process_video"

Calls == SelectSeq(log, IsProcessVideo)

Returned_(index) == JobPositions("return", index) # {}

ResultsWithIndex(index) ==
    { k \in 1..Len(processed_videos) : processed_videos[k].index = index }

Range(seq) == { seq[k] : k \in 1..Len(seq) }

(***************************************************************************)
(* C1: in every state, the accumulated results are no more than the URLs   *)
(* of the current run, every result's index is in 1..N, the indices are    *)
(* strictly increasing in list order (hence distinct), and each result's   *)
(* url is the URL submitted at its index.                                  *)
(***************************************************************************)
C1_ResultsInJobOrder ==
    LET N == Len(urls)
        M == Len(processed_videos)
    IN  /\ M <= N
        /\ \A k \in 1..M :
              /\ processed_videos[k].index \in 1..N
              /\ processed_videos[k].url = urls[processed_videos[k].index]
        /\ \A k \in 1..M : \A j \in (k + 1)..M :
              processed_videos[k].index < processed_videos[j].index

C1_Witness ==
    /\ pc = "idle"
    /\ Len(urls) = 2
    /\ urls[1] # urls[2]
    /\ Len(processed_videos) = 2
    /\ processed_videos[2].index = 2

(***************************************************************************)
(* C2: process_video is called for the indices 1, 2, ... in this order,    *)
(* once each; a job starts only after the job before it has returned, and  *)
(* every external call of a job lies between its call and its return; once *)
(* the models are loaded the run ends only after every URL has had its     *)
(* call and its return, whatever the jobs' outcomes; and a job that        *)
(* returned None gets the failure notice with its index.                   *)
(***************************************************************************)
C2_Sequential ==
    /\ Len(Calls) <= Len(urls)
    /\ \A k \in 1..Len(Calls) : Calls[k].i = k
    /\ \A p \in Positions("process_video") :
          log[p].i > 1 =>
             \E q \in JobPositions("return", log[p].i - 1) : q < p
    /\ \A p \in 1..Len(log) :
          log[p].op \in {"download_video", "transcribe", "translate", "return"} =>
             /\ \E q \in JobPositions("process_video", log[p].i) : q < p
             /\ \A q \in JobPositions("return", log[p].i) : p <= q
    /\ \A k \in 1..Len(urls) : Cardinality(JobPositions("return", k)) <= 1
    /\ pc = "after" => log[Len(log)].op = "return" /\ log[Len(log)].i = i
    /\ (pc = "idle" /\ \E p \in Positions("load") : log[p].ok) =>
          /\ Len(Calls) = Len(urls)
          /\ \A k \in 1..Len(urls) : Returned_(k)

C2_FailureNotice ==
    (pc = "after" /\ ~log[Len(log)].ok) =>
        /\ notices' = Append(notices, FailedNotice(i))
        /\ pc' = "loop"
        /\ i' = i + 1

C2_BatchNeverAborted == []C2_Sequential /\ [][C2_FailureNotice]_vars

C2_Witness ==
    /\ pc = "idle"
    /\ Len(urls) = 2
    /\ \E p \in JobPositions("return", 1) : ~log[p].ok
    /\ \E p \in JobPositions("transcribe", 1) : ~log[p].ok
    /\ \E p \in JobPositions("return", 2) : log[p].ok
    /\ FailedNotice(1) \in Range(notices)

(***************************************************************************)
(* C3: when download_video gave None for job i, no transcription and no    *)
(* translation call is made for job i and no result with index i is in     *)
(* the accumulated results.                                                *)
(***************************************************************************)
C3_NoWorkAfterFetchFailure ==
    \A p \in Positions("download_video") :
        ~log[p].ok =>
            /\ JobPositions("transcribe", log[p].i) = {}
            /\ JobPositions("translate", log[p].i) = {}
            /\ ResultsWithIndex(log[p].i) = {}

C3_Witness ==
    /\ pc = "idle"
    /\ ~processing
    /\ Len(urls) = 2
    /\ \E p \in JobPositions("download_video", 1) : ~log[p].ok
    /\ ResultsWithIndex(2) # {}

(***************************************************************************)
(* C4: download_video returns None whenever the downloader failed (the     *)
(* call raised or the exit code is not zero) or no file whose name starts  *)
(* with the stem is in the directory, and a path only when the downloader  *)
(* succeeded and such a file is there.                                     *)
(***************************************************************************)
C4_FetchFailureOnNonzeroExit ==
    pc = "fetched" =>
        LET failed == IsRaised(subprocess) \/ subprocess.returncode # 0
            found == /\ ~IsRaised(subprocess)
                     /\ \E f \in subprocess.listing : StartsWith(f, VideoStem(i))
        IN  (downloaded_file = None) <=> (failed \/ ~found)

(***************************************************************************)
(* C5: once the download and the transcription of a job have succeeded,    *)
(* the job returns a result, whether the translation returned or raised:   *)
(* the result's Arabic text is the transcription as it came, its English   *)
(* text is "Translation failed: <message>" when the translation raised,    *)
(* and the result is appended, so that a handled job with both successes   *)
(* has exactly one result; no job that began translating returns None.     *)
(***************************************************************************)
C5_OneResultPerTranscribedJob ==
    /\ \A k \in 1..Len(urls) :
          ( /\ \E p \in JobPositions("download_video", k) : log[p].ok
            /\ \E p \in JobPositions("transcribe", k) : log[p].ok
            /\ ~(pc \in {"translate", "after"} /\ i = k) )
          => Cardinality(ResultsWithIndex(k)) = 1
    /\ \A p \in Positions("return") :
          ~log[p].ok => JobPositions("translate", log[p].i) = {}

C5_TranslateNeverFails ==
    /\ pc = "translate" =>
          /\ pc' = "after"
          /\ result' # None
          /\ result'.arabic = arabic_text.text
          /\ result'.url = urls[i]
          /\ result'.index = i
          /\ log'[Len(log') - 1].op = "translate"
          /\ ~log'[Len(log') - 1].ok =>
                \E m \in ErrorMessages : result'.english = TranslationFailed \o m
    /\ (pc = "after" /\ log[Len(log)].ok) =>
          processed_videos' = Append(processed_videos, result)

C5_TranslationFailureDegrades ==
    []C5_OneResultPerTranscribedJob /\ [][C5_TranslateNeverFails]_vars

C5_Witness ==
    /\ pc = "idle"
    /\ \E p \in JobPositions("translate", 1) : ~log[p].ok
    /\ Len(processed_videos) >= 1
    /\ processed_videos[1].index = 1
    /\ StartsWith(processed_videos[1].english, TranslationFailed)

(***************************************************************************)
(* C6: whenever no script run is executing, processing is false.           *)
(***************************************************************************)
C6_ProcessingClearedWhenIdle == pc = "idle" => ~processing

(***************************************************************************)
(* C7: while processing is true no Start Processing click is taken and no  *)
(* batch run begins: the URL list of the run stays, and the results only   *)
(* grow; and a run that is past the click has processing true.             *)
(***************************************************************************)
IsPrefix(s, t) == Len(s) <= Len(t) /\ SubSeq(t, 1, Len(s)) = s

C7_RunInFlightHasProcessing == pc \notin {"idle", "clicked"} => processing

C7_NoStartWhileProcessing ==
    processing =>
        /\ pc' # "clicked"
        /\ pc' = "load" => pc = "load"
        /\ urls' = urls
        /\ IsPrefix(processed_videos, processed_videos')

IsOkReturn(e) == e.op = "return" /\ e.ok

OkReturns == SelectSeq(log, IsOkReturn)

C8_OnlyCurrentRun ==
    LET pending == IF pc = "after" /\ log[Len(log)].ok THEN 1 ELSE 0
    IN  /\ Len(processed_videos) = Len(OkReturns) - pending
        /\ \A k \in 1..Len(processed_videos) :
              processed_videos[k].index = OkReturns[k].i

C8_StartResets == (pc = "clicked" /\ pc' = "load") => processed_videos' = <<>>

C8_ResultsResetPerRun == []C8_OnlyCurrentRun /\ [][C8_StartResets]_vars

C8_Witness ==
    /\ pc = "loop"
    /\ i > Len(urls)
    /\ dropped = 2
    /\ Len(processed_videos) = 1

(***************************************************************************)
(* C9: a Start Processing click on a text that is empty or holds only      *)
(* blanks and line ends shows the validation error and changes nothing     *)
(* else: results, processing, the job list, the model cache and the        *)
(* calls made stay as they were.                                           *)
(***************************************************************************)
AllBlank(text) == \A k \in 1..Len(text) : text[k] \in {" ", "\n"}

C9_RejectedClick ==
    (pc = "clicked" /\ AllBlank(url_input)) =>
        /\ pc' = "idle"
        /\ notices' = <<ValidationError>>
        /\ UNCHANGED <<processed_videos, processing, models_cached, urls, i,
                       locals, result, log, dropped>>

C9_BlankInputRejected == [][C9_RejectedClick]_vars

C9_Witness ==
    /\ pc = "idle"
    /\ notices = <<ValidationError>>
    /\ ~processing
    /\ Len(processed_videos) = 2

(***************************************************************************)
(* Reading an exported file back: UTF-8 decoding, then stripping the       *)
(* "Video URL: " header and cutting at the first place the section header  *)
(* (in the combined file, then the separator) stands.                      *)
(***************************************************************************)
Chr(cp) == CHOOSE c \in DOMAIN Ord : Ord[c] = cp

IsLead(byte) == byte < 128 \/ byte >= 192

CodePoint(bytes) ==
    IF Len(bytes) = 1 THEN bytes[1]
    ELSE IF Len(bytes) = 2 THEN (bytes[1] - 192) * 64 + (bytes[2] - 128)
    ELSE (bytes[1] - 224) * 4096 + (bytes[2] - 128) * 64 + (bytes[3] - 128)

Min(S) == CHOOSE x \in S : \A y \in S : x <= y

Max(S) == CHOOSE x \in S : \A y \in S : y <= x

RECURSIVE Utf8Decode(_)
Utf8Decode(bytes) ==
    IF bytes = <<>> THEN <<>>
    ELSE LET leads == { p \in 2..Len(bytes) : IsLead(bytes[p]) }
             late == { p \in leads : p > Len(bytes) \div 2 }
             mid == IF late # {} THEN Min(late) ELSE Max(leads)
         IN  IF leads = {} THEN <<Chr(CodePoint(bytes))>>
             ELSE Utf8Decode(SubSeq(bytes, 1, mid - 1))
                  \o Utf8Decode(SubSeq(bytes, mid, Len(bytes)))

FindFirst(s, pat) ==
    LET hits == { k \in 1..(Len(s) - Len(pat) + 1) :
                     s[k] = pat[1] /\ SubSeq(s, k, k + Len(pat) - 1) = pat }
    IN  IF hits = {} THEN 0 ELSE Min(hits)

CutAt(s, pat) ==
    LET k == FindFirst(s, pat)
    IN  IF k = 0 THEN None
        ELSE [before |-> SubSeq(s, 1, k - 1),
              after |-> SubSeq(s, k + Len(pat), Len(s))]

ReadSingle(data, header) ==
    LET text == Utf8Decode(data)
        body == SubSeq(text, Len(VideoUrlHeader) + 1, Len(text))
        cut == CutAt(body, header)
    IN  IF ~StartsWith(text, VideoUrlHeader) \/ cut = None THEN None
        ELSE [url |-> cut.before, text |-> cut.after]

ReadCombined(data) ==
    LET first == ReadSingle(data, ArabicHeader)
        cut == IF first = None THEN None ELSE CutAt(first.text, CombinedSeparator)
    IN  IF cut = None THEN None
        ELSE [url |-> first.url, arabic |-> cut.before, english |-> cut.after]

ExpectedName(role, index) == <<"transcript_", role, "_">> \o Str(index) \o <<".txt">>

HasRule(text) == FindFirst(text, Rep("=", SepWidth)) # 0

ArchiveShape(entries) ==
    /\ Len(entries) = 3 * Len(processed_videos)
    /\ \A k \in 1..Len(processed_videos) :
          /\ entries[3 * k - 2].name = ExpectedName("arabic", processed_videos[k].index)
          /\ entries[3 * k - 1].name = ExpectedName("english", processed_videos[k].index)
          /\ entries[3 * k].name = ExpectedName("both", processed_videos[k].index)
    /\ \A p \in 1..Len(entries) : \A q \in (p + 1)..Len(entries) :
          entries[p].name # entries[q].name

SingleFilesReadBack(entries) ==
    \A k \in 1..Len(processed_videos) :
        LET video == processed_videos[k]
        IN  /\ ReadSingle(entries[3 * k - 2].data, ArabicHeader)
                 = [url |-> video.url, text |-> video.arabic]
            /\ ReadSingle(entries[3 * k - 1].data, EnglishHeader)
                 = [url |-> video.url, text |-> video.english]

CombinedReadsBack(entries, k) ==
    LET video == processed_videos[k]
    IN  ReadCombined(entries[3 * k].data)
           = [url |-> video.url, arabic |-> video.arabic, english |-> video.english]

(***************************************************************************)
(* C10 as stated: the archive holds the three files of each result under   *)
(* their names, 3 x |results| entries with distinct names, and every file  *)
(* read back gives the result's URL, Arabic text and English text.         *)
(***************************************************************************)
C10_EveryFileReadsBack ==
    archive # None =>
        /\ ArchiveShape(archive.entries)
        /\ SingleFilesReadBack(archive.entries)
        /\ \A k \in 1..Len(processed_videos) : CombinedReadsBack(archive.entries, k)

(***************************************************************************)
(* C10 amended: as above, but the combined file is required to read back   *)
(* only for a result whose Arabic text holds no run of 50 "=" characters.  *)
(***************************************************************************)
C10_ExportReadsBack ==
    archive # None =>
        /\ ArchiveShape(archive.entries)
        /\ SingleFilesReadBack(archive.entries)
        /\ \A k \in 1..Len(processed_videos) :
              ~HasRule(processed_videos[k].arabic)
                  => CombinedReadsBack(archive.entries, k)

C10_Witness ==
    /\ archive # None
    /\ Len(processed_videos) = 2
    /\ ~HasRule(processed_videos[1].arabic)
    /\ HasRule(processed_videos[1].english)
    /\ HasRule(processed_videos[2].arabic)

=============================================================================
